---- MODULE Spec2Model ----
(***************************************************************************)
(* Model of the `ice` front end: Lexer (src/src/lexer.rs), Token/Location  *)
(* (src/src/tokens.rs) and Parser (src/src/parser.rs).                     *)
(*                                                                         *)
(* A character is a one-character string, a source a sequence of           *)
(* characters.  Positions are 0-based as in the code; a TLA+ sequence is   *)
(* 1-based, so src[pos] of the code is src[pos + 1] here.                  *)
(***************************************************************************)
EXTENDS Integers, Sequences, FiniteSets, TLC

VARIABLES
    lexer,        \* Lexer { src, pos, location, tokens }
    starts,       \* history: value of lexer.pos when each token was recognised
    lexResult,    \* what lex() returned: "running" | "ok" | "err" | "panic"
    lexErr,       \* the Err(String) of lex(), <<>> when none
    parser,       \* Parser { tokens, pos }
    stmts,        \* parse(): local stmts
    errs,         \* parse(): local errs
    calls,        \* history: outcome of every top-level parse_stmt call
    parseResult,  \* what parse() returned: "idle" | "running" | "ok" | "err"
    parseReturn   \* the value carried by the Ok/Err of parse()

vars == <<lexer, starts, lexResult, lexErr, parser, stmts, errs, calls,
          parseResult, parseReturn>>

lexVars == <<lexer, starts, lexResult, lexErr>>
parseVars == <<parser, stmts, errs, calls, parseResult, parseReturn>>

-----------------------------------------------------------------------------
(* Bounds of the model *)

\* longest source over the whole alphabet
MaxLen == 4
\* longest source over the operator alphabet
MaxOpLen == 6
\* longest body of a block comment, longest text after it
MaxBody == 2
MaxRest == 2
\* most lexemes of a program over all lexemes
MaxToks == 3
\* most operators of a chain of atoms
MaxOps == 3
\* most tokens after a function literal
MaxTail == 3
\* most tokens of a statement before its semicolon
MaxStmt == 2
\* tokens between the parentheses of a call
MaxArgs == 3
\* how many calls of parse_stmt beyond one per token are followed
MaxOverrun == 2

-----------------------------------------------------------------------------
(* Characters *)

\* `0 as char`, what curr() and peek() answer past the end
NUL == "NUL"
NL == "\n"
QUOTE == "\""
BACKSLASH == "\\"

Letters == {"a", "f", "n", "i", "t", "r", "e", "u"}
Digits == {"1", "2"}

\* char::is_alphabetic, char::is_numeric, char::is_alphanumeric, char::is_whitespace
is_alphabetic(c) == c \in Letters
is_numeric(c) == c \in Digits
is_alphanumeric(c) == is_alphabetic(c) \/ is_numeric(c)
is_whitespace(c) == c \in {" ", NL}

\* the characters sources are drawn from
Alphabet == {"+", "/", "*", QUOTE, BACKSLASH, NL, " ", "a", "1", ";", "@"}
OpAlphabet == {"+", "-", ";"}
BodyAlphabet == {"*", "/", "a", " "}
RestAlphabet == {"1", ";", "/"}

Strs(A, n) == UNION {[1..k -> A] : k \in 0..n}

-----------------------------------------------------------------------------
(* tokens.rs *)

\* Location::new(col, line); the lexer calls Location::new(1, 1)
LocationNew(col, line) == [col |-> col, line |-> line]
add_line(loc) == [col |-> 1, line |-> loc.line + 1]
add_col(loc) == [loc EXCEPT !.col = @ + 1]

\* Token::new
TokenNew(kind, literal, location) ==
    [kind |-> kind, literal |-> literal, location |-> location]

-----------------------------------------------------------------------------
(* lexer.rs.  L is a Lexer value [src, pos, location, tokens] extended     *)
(* with `panic`, TRUE once an index past the end of src was read.          *)

LexerNew(src) ==
    [src |-> src, pos |-> 0, location |-> LocationNew(1, 1), tokens |-> <<>>,
     panic |-> FALSE]

curr(L) == IF L.pos >= Len(L.src) THEN NUL ELSE L.src[L.pos + 1]

\* peek() guards pos, not pos + 1: at the last character src[pos + 1] is out
\* of range and the indexing panics.
PeekPanics(L) == L.pos < Len(L.src) /\ L.pos + 1 >= Len(L.src)
peek(L) == IF L.pos >= Len(L.src) THEN NUL
           ELSE IF L.pos + 1 >= Len(L.src) THEN NUL
           ELSE L.src[L.pos + 2]

Panic(L) == [L EXCEPT !.panic = TRUE]

advance(L) ==
    [L EXCEPT !.location = IF curr(L) = NL THEN add_line(@) ELSE add_col(@),
              !.pos = @ + 1]

RECURSIVE skip_whitespaces(_)
skip_whitespaces(L) ==
    IF L.pos < Len(L.src) /\ is_whitespace(curr(L))
    THEN skip_whitespaces(advance(L))
    ELSE L

\* the inner loop of a block comment:
\*   while curr != '*' && peek != '/' && pos < len { advance }
RECURSIVE SkipBlockBody(_)
SkipBlockBody(L) ==
    IF curr(L) = "*" THEN L
    ELSE IF PeekPanics(L) THEN Panic(L)
    ELSE IF peek(L) = "/" THEN L
    ELSE IF L.pos < Len(L.src) THEN SkipBlockBody(advance(L))
    ELSE L

\* the inner loop of a line comment: while curr != '\n' && pos < len { advance }
RECURSIVE SkipLineBody(_)
SkipLineBody(L) ==
    IF curr(L) # NL /\ L.pos < Len(L.src) THEN SkipLineBody(advance(L)) ELSE L

RECURSIVE skip_comments(_)
skip_comments(L) ==
    IF curr(L) # "/" THEN L
    ELSE IF PeekPanics(L) THEN Panic(L)
    ELSE IF ~(peek(L) = "*" \/ peek(L) = "/") THEN L
    ELSE LET pk == peek(L)
             L2 == advance(advance(L))
         IN  IF pk = "*"
             THEN LET L3 == SkipBlockBody(L2)
                  IN  IF L3.panic THEN L3
                      ELSE skip_comments(skip_whitespaces(advance(advance(L3))))
             ELSE skip_comments(skip_whitespaces(SkipLineBody(L2)))

\* lex_single_char_token(&self) -> Option<Token>, with `panic` for the
\* out-of-range read of peek()
SingleCharKind(c, pk) ==
    CASE c = "*" -> "Star"
      [] c = "/" -> "Slash"
      [] c = "+" -> IF pk = "+" THEN "Inc" ELSE "Plus"
      [] c = "=" -> IF pk = "=" THEN "Eq2" ELSE "Eq"
      [] c = "-" -> IF pk = "-" THEN "Decr" ELSE "Minus"
      [] c = ":" -> "Colon"
      [] c = ";" -> "Semicolon"
      [] c = "(" -> "LParen"
      [] c = ")" -> "RParen"
      [] c = "{" -> "LCurly"
      [] c = "}" -> "RCurly"
      [] c = "," -> "Comma"
      [] OTHER -> "None"

lex_single_char_token(L) ==
    LET c == curr(L)
    IN  IF c \in {"+", "=", "-"} /\ PeekPanics(L)
        THEN [panic |-> TRUE, some |-> FALSE, token |-> <<>>]
        ELSE LET kind == SingleCharKind(c, peek(L))
             IN  IF kind = "None"
                 THEN [panic |-> FALSE, some |-> FALSE, token |-> <<>>]
                 ELSE [panic |-> FALSE, some |-> TRUE,
                       token |-> TokenNew(kind, <<c>>, L.location)]

\* is_escaped(literal): an odd number of backslashes before the last character
RECURSIVE TrailingBackslashes(_, _)
TrailingBackslashes(literal, i) ==
    IF i >= 1 /\ literal[i] = BACKSLASH
    THEN 1 + TrailingBackslashes(literal, i - 1)
    ELSE 0

\* is_escaped as it would be if no quote were ever taken as escaped
is_escaped_Never(literal) == FALSE

is_escaped(literal) ==
    TrailingBackslashes(literal, Len(literal) - 1) % 2 = 1

\* the while loop of lex_double_quoted_string
RECURSIVE StringLoop(_, _, _)
StringLoop(L, literal, location) ==
    IF L.pos < Len(L.src)
    THEN LET c == curr(L)
             lit == Append(literal, c)
         IN  IF c = NL
             THEN [L |-> L, ok |-> FALSE, token |-> <<>>,
                   err |-> <<"Unclosed string">>]
             ELSE IF c = QUOTE /\ ~is_escaped(lit)
             THEN [L |-> advance(L), ok |-> TRUE,
                   token |-> TokenNew("String", lit, location), err |-> <<>>]
             ELSE StringLoop(advance(L), lit, location)
    ELSE [L |-> L, ok |-> TRUE,
          token |-> TokenNew("String", literal, location), err |-> <<>>]

lex_double_quoted_string(L) ==
    IF curr(L) # QUOTE
    THEN [L |-> L, ok |-> FALSE, token |-> <<>>,
          err |-> <<"String must start from quote">>]
    ELSE StringLoop(advance(L), <<curr(L)>>, L.location)

keyword_or_id_kind(literal) ==
    CASE literal = <<"r", "e", "t", "u", "r", "n">> -> "Return"
      [] literal = <<"f", "n">> -> "Fn"
      [] literal = <<"i", "n", "t">> -> "Int"
      [] OTHER -> "Id"

RECURSIVE IdLoop(_, _)
IdLoop(L, literal) ==
    IF is_alphanumeric(curr(L)) \/ curr(L) = "_"
    THEN IdLoop(advance(L), Append(literal, curr(L)))
    ELSE [L |-> L, literal |-> literal]

lex_id_or_keyword(L) ==
    IF ~(is_alphabetic(curr(L)) \/ curr(L) = "_")
    THEN [L |-> L, some |-> FALSE, token |-> <<>>]
    ELSE LET r == IdLoop(L, <<>>)
         IN  [L |-> r.L, some |-> TRUE,
              token |-> TokenNew(keyword_or_id_kind(r.literal), r.literal,
                                 L.location)]

RECURSIVE NumberLoop(_, _, _)
NumberLoop(L, literal, is_float) ==
    IF is_numeric(curr(L)) \/ curr(L) = "_" \/ curr(L) = "."
    THEN NumberLoop(advance(L), Append(literal, curr(L)),
                    is_float \/ curr(L) = ".")
    ELSE [L |-> L, literal |-> literal, is_float |-> is_float]

lex_number(L) ==
    IF ~is_numeric(curr(L))
    THEN [L |-> L, some |-> FALSE, token |-> <<>>]
    ELSE LET r == NumberLoop(L, <<>>, FALSE)
         IN  [L |-> r.L, some |-> TRUE,
              token |-> TokenNew(IF r.is_float THEN "Float" ELSE "Int",
                                 r.literal, L.location)]

Push(L, token) == [L EXCEPT !.tokens = Append(@, token)]

\* One iteration of the loop of lex(), entered with pos < len.  `how` says
\* how the iteration ended: "continue", "break", "err" (return Err) or
\* "panic"; `start` is pos when the token was recognised.
LexIteration(L0) ==
    LET L == skip_comments(skip_whitespaces(L0))
        c == curr(L)
        single == lex_single_char_token(L)
        str == lex_double_quoted_string(L)
        id == lex_id_or_keyword(L)
        num == lex_number(L)
        Out(how, LL, err) == [how |-> how, L |-> LL, err |-> err, start |-> L.pos]
    IN  IF L.panic THEN Out("panic", L, <<>>)
        ELSE IF L.pos >= Len(L.src) THEN Out("break", L, <<>>)
        ELSE IF single.panic THEN Out("panic", Panic(L), <<>>)
        ELSE IF single.some THEN Out("continue", advance(Push(L, single.token)), <<>>)
        ELSE IF c = QUOTE
        THEN IF str.ok THEN Out("continue", Push(str.L, str.token), <<>>)
             ELSE Out("err", str.L, str.err)
        ELSE IF (is_alphabetic(c) \/ c = "_") /\ id.some
        THEN Out("continue", Push(id.L, id.token), <<>>)
        ELSE IF is_numeric(c) /\ num.some
        THEN Out("continue", Push(num.L, num.token), <<>>)
        ELSE Out("err", L, <<"unrecognized lexeme at", L.location>>)

\* PushEOF as it would be if it pushed the EOF token twice
PushEOF_Twice(L) ==
    Push(Push(L, TokenNew("EOF", <<>>, L.location)),
         TokenNew("EOF", <<>>, L.location))

\* after the loop: exactly one EOF token with the final Location
PushEOF(L) == Push(L, TokenNew("EOF", <<>>, L.location))

\* lex() run to its end on a fresh Lexer, as one function of the source
RECURSIVE LexFrom(_)
LexFrom(L) ==
    IF L.pos < Len(L.src)
    THEN LET it == LexIteration(L)
         IN  CASE it.how = "continue" -> LexFrom(it.L)
               [] it.how = "break" -> [result |-> "ok", tokens |-> PushEOF(it.L).tokens]
               [] it.how = "err" -> [result |-> "err", tokens |-> <<>>]
               [] OTHER -> [result |-> "panic", tokens |-> <<>>]
    ELSE [result |-> "ok", tokens |-> PushEOF(L).tokens]

Lex(src) == LexFrom(LexerNew(src))

-----------------------------------------------------------------------------
(* parser.rs.  The parsing functions read self.tokens and move self.pos;    *)
(* here each takes the tokens and pos and answers                           *)
(*   [ok, pos, val]: Ok(val) or Err(val), and self.pos when it returned.    *)

Ok(pos, val) == [ok |-> TRUE, pos |-> pos, val |-> val]
Err(pos, val) == [ok |-> FALSE, pos |-> pos, val |-> val]

\* Option<T>
None == <<>>
Some(x) == <<x>>

\* peek_off(offset) is Some iff pos + offset < tokens.len()
HasToken(toks, pos) == pos < Len(toks)
\* curr(), when it is Some
Parser_curr(toks, pos) == toks[pos + 1]

\* expect(kind) / curr_expect(kind): Ok iff the current token has that kind
ExpectErr(toks, pos, kind) ==
    IF HasToken(toks, pos)
    THEN <<"expected", kind, "at", Parser_curr(toks, pos).location>>
    ELSE IF Len(toks) > 0
    THEN <<"input expected", kind, "after token at", toks[Len(toks)].location>>
    ELSE <<"input expected", kind>>

expect(toks, pos, kind) ==
    IF HasToken(toks, pos) /\ Parser_curr(toks, pos).kind = kind
    THEN Ok(pos, <<>>)
    ELSE Err(pos, ExpectErr(toks, pos, kind))

curr_expect(toks, pos, kind) ==
    IF HasToken(toks, pos) /\ Parser_curr(toks, pos).kind = kind
    THEN Ok(pos, Parser_curr(toks, pos))
    ELSE Err(pos, ExpectErr(toks, pos, kind))

\* get_binding_power with the pair of every operator the wrong way round
get_binding_power_Swapped(op) ==
    CASE op \in {"Plus", "Minus"} -> <<2, 1>>
      [] op \in {"Star", "Slash"} -> <<4, 3>>
      [] OTHER -> <<0, 0>>

\* get_binding_power(op) -> (l_bp, r_bp)
get_binding_power(op) ==
    CASE op \in {"Plus", "Minus"} -> <<1, 2>>
      [] op \in {"Star", "Slash"} -> <<3, 4>>
      [] OTHER -> <<0, 0>>

is_binary_operator(kind) == kind \in {"Plus", "Minus", "Star", "Slash"}

\* ast.rs
Binary(lhs, op, rhs) == [type |-> "Binary", lhs |-> lhs, op |-> op, rhs |-> rhs]
Unary(op, expr) == [type |-> "Unary", op |-> op, expr |-> expr]
FunctionCall(callee, args) ==
    [type |-> "FunctionCall", callee |-> callee, args |-> args]
FunctionLiteral(name, params, return_type, body) ==
    [type |-> "FunctionLiteral", name |-> name, params |-> params,
     return_type |-> return_type, body |-> body]
IdExpr(name) == [type |-> "Id", name |-> name]
IntExpr(value) == [type |-> "Int", value |-> value]
TypeMappingNew(expr, t) == [expr |-> expr, t |-> t]
Return(value) == [type |-> "Return", value |-> value]
ExpressionStatement(expression) ==
    [type |-> "ExpressionStatement", expression |-> expression]
Halt == [type |-> "Halt"]

\* Each call of a parsing function is written once, as the argument of the
\* operator that holds what the code does with its result.

RECURSIVE parse_stmt(_, _)
RECURSIVE parse_binary(_, _, _)
RECURSIVE BinaryLoop(_, _, _, _)
RECURSIVE parse_atom(_, _)
RECURSIVE CallArgsLoop(_, _, _)
RECURSIVE InvokeArgsLoop(_, _, _)
RECURSIVE ParamsLoop(_, _, _)
RECURSIVE BodyLoop(_, _, _, _)

parse_expr(toks, pos) == parse_binary(toks, pos, 0)

parse_type(toks, pos) ==
    IF HasToken(toks, pos)
    THEN IF Parser_curr(toks, pos).kind = "Int"
         THEN Ok(pos + 1, "Int")
         ELSE Err(pos, <<"Expected type at", Parser_curr(toks, pos).location,
                         "but got", Parser_curr(toks, pos).kind>>)
    ELSE Err(pos, <<"Expected type at the end of stream">>)

\* Ok(Expression::Unary { op, expr: self.parse_atom()?.into() })
UnaryOf(op, atom) ==
    IF atom.ok THEN Ok(atom.pos, Unary(op, atom.val)) ELSE atom

parse_prefix(toks, pos) ==
    IF HasToken(toks, pos)
    THEN IF Parser_curr(toks, pos).kind \in {"Plus", "Minus"}
         THEN UnaryOf(Parser_curr(toks, pos).kind, parse_atom(toks, pos + 1))
         ELSE parse_atom(toks, pos)
    ELSE Err(pos, <<"">>)

\* let mut lhs = self.parse_prefix()?; then the loop
BinaryFrom(toks, lhs, min_bp) ==
    IF lhs.ok THEN BinaryLoop(toks, lhs.pos, lhs.val, min_bp) ELSE lhs

parse_binary(toks, pos, min_bp) ==
    BinaryFrom(toks, parse_prefix(toks, pos), min_bp)

\* let rhs = self.parse_binary(r_bp)?; lhs = Binary { lhs, op, rhs }; loop
BinaryFold(toks, lhs, op, rhs, min_bp) ==
    IF rhs.ok
    THEN BinaryLoop(toks, rhs.pos, Binary(lhs, op, rhs.val), min_bp)
    ELSE rhs

\* the `while let Some(op) = self.curr()` loop of parse_binary
BinaryLoop(toks, pos, lhs, min_bp) ==
    IF HasToken(toks, pos) /\ is_binary_operator(Parser_curr(toks, pos).kind)
    THEN IF get_binding_power(Parser_curr(toks, pos).kind)[1] < min_bp
         THEN Ok(pos, lhs)
         ELSE BinaryFold(toks, lhs, Parser_curr(toks, pos).kind,
                         parse_binary(toks, pos + 1,
                             get_binding_power(Parser_curr(toks, pos).kind)[2]),
                         min_bp)
    ELSE Ok(pos, lhs)

\* Ok(Expression::FunctionCall { callee, args }) once the arguments are parsed
CallOf(callee, args) ==
    IF args.ok THEN Ok(args.pos, FunctionCall(callee, args.val)) ELSE args

\* after an argument: push it, skip a Comma if there is one
AfterArg(toks, arg) ==
    IF expect(toks, arg.pos, "Comma").ok THEN arg.pos + 1 ELSE arg.pos

\* args.push(self.parse_expr()?), then on with the loop of parse_function_call
CallArgsPush(toks, args, arg) ==
    IF arg.ok
    THEN CallArgsLoop(toks, AfterArg(toks, arg), Append(args, arg.val))
    ELSE arg

\* the argument loop of parse_function_call; val is args
CallArgsLoop(toks, pos, args) ==
    IF HasToken(toks, pos)
    THEN IF Parser_curr(toks, pos).kind = "RParen"
         THEN Ok(pos + 1, args)
         ELSE CallArgsPush(toks, args, parse_expr(toks, pos))
    ELSE Ok(pos, args)

parse_function_call(toks, pos) ==
    IF ~expect(toks, pos, "Id").ok THEN expect(toks, pos, "Id")
    ELSE IF ~expect(toks, pos + 1, "LParen").ok
    THEN expect(toks, pos + 1, "LParen")
    ELSE CallOf(IdExpr(Parser_curr(toks, pos)),
                CallArgsLoop(toks, pos + 2, <<>>))

parse_id_or_function_call(toks, pos) ==
    IF ~expect(toks, pos, "Id").ok THEN expect(toks, pos, "Id")
    ELSE IF HasToken(toks, pos + 1) /\ toks[pos + 2].kind = "LParen"
    THEN parse_function_call(toks, pos)
    ELSE Ok(pos + 1, IdExpr(Parser_curr(toks, pos)))

\* params.push(TypeMapping::new(Id { name }, self.parse_type()?)), skip a
\* Comma if there is one, then on with the parameter loop
ParamsPush(toks, params, param_name, param_type) ==
    IF param_type.ok
    THEN ParamsLoop(toks, AfterArg(toks, param_type),
                    Append(params,
                           TypeMappingNew(IdExpr(param_name), param_type.val)))
    ELSE param_type

\* the parameter loop of parse_function_literal_or_call; val is params
ParamsLoop(toks, pos, params) ==
    IF expect(toks, pos, "RParen").ok THEN Ok(pos, params)
    ELSE IF ~curr_expect(toks, pos, "Id").ok THEN curr_expect(toks, pos, "Id")
    ELSE IF ~expect(toks, pos + 1, "Colon").ok THEN expect(toks, pos + 1, "Colon")
    ELSE ParamsPush(toks, params, Parser_curr(toks, pos),
                    parse_type(toks, pos + 2))

\* let stmt = self.parse_stmt()?; Halt is an error; body.push(stmt)
BodyPush(toks, body, fn_keyword, stmt) ==
    IF ~stmt.ok THEN stmt
    ELSE IF stmt.val.type = "Halt"
    THEN Err(stmt.pos, <<"unexpected end of input in function body at",
                         fn_keyword.location>>)
    ELSE BodyLoop(toks, stmt.pos, Append(body, stmt.val), fn_keyword)

\* the body loop of parse_function_literal_or_call; val is body
BodyLoop(toks, pos, body, fn_keyword) ==
    IF expect(toks, pos, "RCurly").ok THEN Ok(pos, body)
    ELSE BodyPush(toks, body, fn_keyword, parse_stmt(toks, pos))

\* args.push(self.parse_expr()?), then on with the loop of the invocation
InvokeArgsPush(toks, args, arg) ==
    IF arg.ok
    THEN InvokeArgsLoop(toks, AfterArg(toks, arg), Append(args, arg.val))
    ELSE arg

\* the argument loop of an immediately invoked function literal; val is args
InvokeArgsLoop(toks, pos, args) ==
    IF HasToken(toks, pos)
    THEN IF Parser_curr(toks, pos).kind = "RParen"
         THEN Ok(pos + 1, args)
         ELSE InvokeArgsPush(toks, args, parse_expr(toks, pos))
    ELSE Ok(pos, args)

\* FnInvoke as it would be if the literal were never invoked
FnInvoke_Never(toks, pos, literal) == Ok(pos, literal)

\* parse_function_literal_or_call, after `self.advance(); // skip }`: an
\* LParen makes the literal the callee of a call
FnInvoke(toks, pos, literal) ==
    IF expect(toks, pos, "LParen").ok
    THEN CallOf(literal, InvokeArgsLoop(toks, pos + 1, <<>>))
    ELSE Ok(pos, literal)

\* parse_function_literal_or_call, once the body loop is over
FnClose(toks, name, params, return_type, body) ==
    IF body.ok
    THEN FnInvoke(toks, body.pos + 1,
                  FunctionLiteral(name, params, return_type, body.val))
    ELSE body

\* parse_function_literal_or_call, from expect(LCurly) on
FnBody(toks, pos, fn_keyword, name, params, return_type) ==
    IF expect(toks, pos, "LCurly").ok
    THEN FnClose(toks, name, params, return_type,
                 BodyLoop(toks, pos + 1, <<>>, fn_keyword))
    ELSE expect(toks, pos, "LCurly")

\* return_type = Some(self.parse_type()?)
FnTyped(toks, fn_keyword, name, params, ret) ==
    IF ret.ok
    THEN FnBody(toks, ret.pos, fn_keyword, name, params, Some(ret.val))
    ELSE ret

\* parse_function_literal_or_call, from the optional return type on
FnReturnType(toks, pos, fn_keyword, name, params) ==
    IF expect(toks, pos, "Colon").ok
    THEN IF expect(toks, pos + 1, "Colon").ok
         THEN FnTyped(toks, fn_keyword, name, params, parse_type(toks, pos + 2))
         ELSE expect(toks, pos + 1, "Colon")
    ELSE FnBody(toks, pos, fn_keyword, name, params, None)

\* parse_function_literal_or_call, once the parameter loop is over
FnSignature(toks, fn_keyword, name, params) ==
    IF params.ok
    THEN FnReturnType(toks, params.pos + 1, fn_keyword, name, params.val)
    ELSE params

\* parse_function_literal_or_call, from expect(LParen) on
FnParameters(toks, pos, fn_keyword, name) ==
    IF expect(toks, pos, "LParen").ok
    THEN FnSignature(toks, fn_keyword, name, ParamsLoop(toks, pos + 1, <<>>))
    ELSE expect(toks, pos, "LParen")

parse_function_literal_or_call(toks, pos) ==
    IF curr_expect(toks, pos, "Fn").ok
    THEN IF curr_expect(toks, pos + 1, "Id").ok
         THEN FnParameters(toks, pos + 2, Parser_curr(toks, pos),
                           Some(Parser_curr(toks, pos + 1)))
         ELSE FnParameters(toks, pos + 1, Parser_curr(toks, pos), None)
    ELSE curr_expect(toks, pos, "Fn")

parse_atom(toks, pos) ==
    IF HasToken(toks, pos)
    THEN CASE Parser_curr(toks, pos).kind = "Fn" ->
                parse_function_literal_or_call(toks, pos)
           [] Parser_curr(toks, pos).kind = "Id" ->
                parse_id_or_function_call(toks, pos)
           [] Parser_curr(toks, pos).kind = "Int" ->
                Ok(pos + 1, IntExpr(Parser_curr(toks, pos)))
           [] OTHER ->
                Err(pos, <<"unexpected token", Parser_curr(toks, pos).literal,
                           Parser_curr(toks, pos).kind, "at",
                           Parser_curr(toks, pos).location>>)
    ELSE Err(pos, <<"unexpected end of input while parsing expression">>)

\* StmtEnd as it would be with the semicolon asked after every expression
StmtEnd_AlwaysSemicolon(toks, expr) ==
    IF ~expr.ok THEN expr
    ELSE IF expect(toks, expr.pos, "Semicolon").ok
    THEN Ok(expr.pos + 1, ExpressionStatement(expr.val))
    ELSE expect(toks, expr.pos, "Semicolon")

\* the tail of the expression-statement arm of parse_stmt: a FunctionLiteral
\* needs no semicolon, every other expression needs one
StmtEnd(toks, expr) ==
    IF ~expr.ok THEN expr
    ELSE IF expr.val.type = "FunctionLiteral"
    THEN Ok(expr.pos, ExpressionStatement(expr.val))
    ELSE IF expect(toks, expr.pos, "Semicolon").ok
    THEN Ok(expr.pos + 1, ExpressionStatement(expr.val))
    ELSE expect(toks, expr.pos, "Semicolon")

\* the tail of the Return arm of parse_stmt
ReturnEnd(toks, expr) ==
    IF ~expr.ok THEN expr
    ELSE IF expect(toks, expr.pos, "Semicolon").ok
    THEN Ok(expr.pos + 1, Return(Some(expr.val)))
    ELSE expect(toks, expr.pos, "Semicolon")

parse_stmt(toks, pos) ==
    IF HasToken(toks, pos)
    THEN CASE Parser_curr(toks, pos).kind = "EOF" -> Ok(pos, Halt)
           [] Parser_curr(toks, pos).kind = "Return" ->
                IF expect(toks, pos + 1, "Semicolon").ok
                THEN Ok(pos + 2, Return(None))
                ELSE ReturnEnd(toks, parse_expr(toks, pos + 1))
           [] OTHER -> StmtEnd(toks, parse_expr(toks, pos))
    ELSE Err(pos, <<"expected statement before the end of input">>)

-----------------------------------------------------------------------------
(* The lexer as a state machine: one step per iteration of the loop of     *)
(* lex(), one for what follows the loop.                                    *)

\* "/*" body "*/" rest
CommentSource(body, rest) == <<"/", "*">> \o body \o <<"*", "/">> \o rest

\* the sources lex() is run on
Sources ==
    Strs(Alphabet, MaxLen) \cup Strs(OpAlphabet, MaxOpLen)
    \cup {CommentSource(b, r) : b \in Strs(BodyAlphabet, MaxBody),
                                r \in Strs(RestAlphabet, MaxRest)}

ParserIdle ==
    /\ parser = [tokens |-> <<>>, pos |-> 0]
    /\ stmts = <<>>
    /\ errs = <<>>
    /\ calls = <<>>
    /\ parseResult = "idle"
    /\ parseReturn = <<>>

\* Lexer::new(src)
Init ==
    /\ \E src \in Sources : lexer = LexerNew(src)
    /\ starts = <<>>
    /\ lexResult = "running"
    /\ lexErr = <<>>
    /\ ParserIdle

\* lex(): one iteration of `while self.pos < self.src.len()`
LexStep ==
    /\ lexResult = "running"
    /\ lexer.pos < Len(lexer.src)
    /\ LET it == LexIteration(lexer)
       IN  /\ lexer' = it.L
           /\ starts' = IF it.how = "continue" THEN Append(starts, it.start)
                        ELSE starts
           /\ lexResult' = CASE it.how = "err" -> "err"
                             [] it.how = "panic" -> "panic"
                             [] OTHER -> "running"
           /\ lexErr' = it.err
    /\ UNCHANGED parseVars

\* lex(): the loop is over (its condition is false, or it broke out after
\* skipping to the end): push EOF, return Ok(tokens)
LexFinish ==
    /\ lexResult = "running"
    /\ lexer.pos >= Len(lexer.src)
    /\ lexer' = PushEOF(lexer)
    /\ starts' = Append(starts, lexer.pos)
    /\ lexResult' = "ok"
    /\ UNCHANGED <<lexErr, parseVars>>

Next == LexStep \/ LexFinish

Spec == Init /\ [][Next]_vars

-----------------------------------------------------------------------------
(* The pipeline of main.rs: lex the source; on Ok(tokens) build a Parser   *)
(* from them and parse.  One step per iteration of the loop of parse().     *)

\* lexemes, as characters
LxInt == <<"1">>
LxIntKw == <<"i", "n", "t">>
LxId == <<"a">>
LxFn == <<"f", "n">>
LxReturn == <<"r", "e", "t", "u", "r", "n">>
Lx(c) == <<c>>

\* a program is a sequence of lexemes; its source has each followed by a space
RECURSIVE Source(_)
Source(prog) ==
    IF prog = <<>> THEN <<>>
    ELSE Head(prog) \o <<" ">> \o Source(Tail(prog))

\* the lexemes of the programs taken token by token
Lexemes ==
    {LxInt, LxId, LxFn, LxReturn}
    \cup {Lx(c) : c \in {"+", "*", ";", "(", ")", "{", "}"}}

\* chains of atoms joined by binary operators, closed by a semicolon
Atoms == {LxInt, LxId}
BinOps == {Lx("+"), Lx("-"), Lx("*"), Lx("/")}
RECURSIVE Chains(_)
Chains(n) ==
    IF n = 0 THEN {<<a>> : a \in Atoms}
    ELSE {c \o <<o, a>> : c \in Chains(n - 1), o \in BinOps, a \in Atoms}
ChainPrograms == UNION {{c \o <<Lx(";")>> : c \in Chains(n)} : n \in 0..MaxOps}

\* function literals, followed by a few tokens
FnNames == {<<>>, <<LxId>>}
FnParams == {<<>>, <<LxId, Lx(":"), LxIntKw>>}
FnReturns == {<<>>, <<Lx(":"), Lx(":"), LxIntKw>>}
FnBodies == {<<>>, <<LxInt, Lx(";")>>, <<LxReturn, Lx(";")>>}
FnTails == Strs({Lx("("), Lx(")"), Lx(";"), LxInt}, MaxTail)
FnPrograms ==
    {<<LxFn>> \o n \o <<Lx("(")>> \o p \o <<Lx(")")>> \o r
        \o <<Lx("{")>> \o b \o <<Lx("}")>> \o t :
        n \in FnNames, p \in FnParams, r \in FnReturns, b \in FnBodies,
        t \in FnTails}

\* three statements, each closed by its semicolon
Statements ==
    {st \o <<Lx(";")>> : st \in Strs({LxInt, Lx("+")}, MaxStmt)}
StatementPrograms ==
    {s1 \o s2 \o s3 : s1 \in Statements, s2 \in Statements, s3 \in Statements}

\* calls: an identifier or a function literal, then an argument list
Callees == {<<LxId>>, <<LxFn, Lx("("), Lx(")"), Lx("{"), Lx("}")>>}
CallPrograms ==
    {c \o <<Lx("(")>> \o args \o <<Lx(")"), Lx(";")>> :
        c \in Callees, args \in Strs({LxInt, Lx(",")}, MaxArgs)}

\* function literals with one token where the type of the parameter or the
\* return type is expected, and the same cut off before that token
TypeLexemes == {LxIntKw, LxInt, LxId, Lx(";")}
ParamTyped == <<LxFn, Lx("("), LxId, Lx(":")>>
ReturnTyped == <<LxFn, Lx("("), Lx(")"), Lx(":"), Lx(":")>>
TypePrograms ==
    {ParamTyped \o <<t, Lx(")"), Lx("{"), Lx("}")>> : t \in TypeLexemes}
    \cup {ReturnTyped \o <<t, Lx("{"), Lx("}")>> : t \in TypeLexemes}
    \cup {ParamTyped, ReturnTyped}

\* statements with the keyword `int` where an expression is expected
KeywordPrograms ==
    {<<LxIntKw, Lx(";")>>,
     <<LxInt, Lx("+"), LxIntKw, Lx(";")>>,
     <<LxReturn, LxIntKw, Lx(";")>>,
     <<LxId, Lx("("), LxIntKw, Lx(")"), Lx(";")>>,
     <<LxFn, Lx("("), Lx(")"), Lx("{"), LxIntKw, Lx(";"), Lx("}")>>}

Programs ==
    Strs(Lexemes, MaxToks) \cup ChainPrograms \cup FnPrograms
    \cup StatementPrograms \cup CallPrograms \cup TypePrograms
    \cup KeywordPrograms

PipelineInit ==
    /\ \E prog \in Programs : lexer = LexerNew(Source(prog))
    /\ starts = <<>>
    /\ lexResult = "running"
    /\ lexErr = <<>>
    /\ ParserIdle

\* main.rs: Ok(tokens) => Parser::new(tokens), then parse() starts with
\* empty stmts and errs
ParserNew ==
    /\ lexResult = "ok"
    /\ parseResult = "idle"
    /\ parser' = [tokens |-> lexer.tokens, pos |-> 0]
    /\ parseResult' = "running"
    /\ UNCHANGED <<stmts, errs, calls, parseReturn, lexVars>>

\* the loop of parse() is cut off once parse_stmt was called MaxOverrun
\* times more than there are tokens
MayCall ==
    /\ parseResult = "running"
    /\ Len(calls) < Len(parser.tokens) + MaxOverrun

\* the record of a top-level call made at parser.pos with result r
Called(r) ==
    Append(calls, [at |-> parser.pos, ok |-> r.ok, pos |-> r.pos, val |-> r.val])

\* Resync as it would be if recovery skipped the token after the error too
Resync_TwoTokens(pos) == pos + 2

\* Err(err) => { errs.push(err); self.advance(); }
Resync(pos) == pos + 1

\* ParseOutcome as it would be if a single diagnostic were let through
ParseOutcome_OneErrorPasses(ss, es) ==
    IF Len(es) > 1 THEN [result |-> "err", value |-> es]
    ELSE [result |-> "ok", value |-> ss]

\* after the loop: Err(errs) if any diagnostic was recorded, else Ok(stmts)
ParseOutcome(ss, es) ==
    IF Len(es) # 0 THEN [result |-> "err", value |-> es]
    ELSE [result |-> "ok", value |-> ss]

\* Ok(stmt), not Halt: stmts.push(stmt)
OkArm(r) ==
    /\ r.ok /\ r.val.type # "Halt"
    /\ stmts' = Append(stmts, r.val)
    /\ parser' = [parser EXCEPT !.pos = r.pos]
    /\ calls' = Called(r)
    /\ UNCHANGED <<errs, parseResult, parseReturn, lexVars>>

\* Err(err): record the diagnostic, advance one token, go round again
ErrArm(r) ==
    /\ ~r.ok
    /\ errs' = Append(errs, r.val)
    /\ parser' = [parser EXCEPT !.pos = Resync(r.pos)]
    /\ calls' = Called(r)
    /\ UNCHANGED <<stmts, parseResult, parseReturn, lexVars>>

\* Ok(Halt): break, and parse() returns
HaltArm(r) ==
    /\ r.ok /\ r.val.type = "Halt"
    /\ parser' = [parser EXCEPT !.pos = r.pos]
    /\ calls' = Called(r)
    /\ parseResult' = ParseOutcome(stmts, errs).result
    /\ parseReturn' = ParseOutcome(stmts, errs).value
    /\ UNCHANGED <<stmts, errs, lexVars>>

\* one iteration of the loop of parse(): match self.parse_stmt() { ... }
ParseStmtOk == MayCall /\ OkArm(parse_stmt(parser.tokens, parser.pos))
ParseStmtErr == MayCall /\ ErrArm(parse_stmt(parser.tokens, parser.pos))
ParseHalt == MayCall /\ HaltArm(parse_stmt(parser.tokens, parser.pos))

PipelineNext ==
    LexStep \/ LexFinish \/ ParserNew \/ ParseStmtOk \/ ParseStmtErr \/ ParseHalt

Pipeline == PipelineInit /\ [][PipelineNext]_vars

-----------------------------------------------------------------------------
(* Claims about the lexer *)

Kinds(toks) == [i \in 1..Len(toks) |-> toks[i].kind]
KindsAndLiterals(toks) ==
    [i \in 1..Len(toks) |-> <<toks[i].kind, toks[i].literal>>]

\* C2: lex is total: it returns Ok or Err for every source and never aborts
\* on an out-of-range character access; peek is never evaluated past the end
\* of the source.
C2_LexIsTotal == lexResult # "panic"

\* C3: when lex returns Ok(tokens), the sequence is non-empty, its last token
\* is EOF and no token before the last is EOF.
C3_ExactlyOneEOF ==
    lexResult = "ok" =>
        /\ Len(lexer.tokens) >= 1
        /\ lexer.tokens[Len(lexer.tokens)].kind = "EOF"
        /\ \A i \in 1..(Len(lexer.tokens) - 1) : lexer.tokens[i].kind # "EOF"

\* lex returned Ok with at least two tokens before the EOF
C3_Witness ==
    /\ lexResult = "ok"
    /\ Len(lexer.tokens) >= 3
    /\ lexer.tokens[1].kind # "EOF"

\* index (1-based) of the first "*/" at or after index i of s, 0 if none
RECURSIVE FirstClose(_, _)
FirstClose(s, i) ==
    IF i + 1 > Len(s) THEN 0
    ELSE IF s[i] = "*" /\ s[i + 1] = "/" THEN i
    ELSE FirstClose(s, i + 1)

\* the source opens with a block comment that is closed
StartsWithClosedComment(s) ==
    /\ Len(s) >= 4
    /\ s[1] = "/" /\ s[2] = "*"
    /\ FirstClose(s, 3) # 0

\* what follows the first "*/" after the opening "/*"
AfterComment(s) == SubSeq(s, FirstClose(s, 3) + 2, Len(s))

\* C6: a block comment runs until the first following "*/": lexing
\* "/*" body "*/" rest (body without "*/") yields the same token kinds and
\* literals as lexing rest alone (stated where lex accepts both sources).
C6_BlockCommentIsDiscarded ==
    (/\ lexResult = "ok"
     /\ StartsWithClosedComment(lexer.src)
     /\ Lex(AfterComment(lexer.src)).result = "ok") =>
        KindsAndLiterals(lexer.tokens)
            = KindsAndLiterals(Lex(AfterComment(lexer.src)).tokens)

\* the number of characters of the source token i stands for
Extent(tok) == IF tok.kind \in {"Inc", "Decr", "Eq2"} THEN 2 ELSE Len(tok.literal)

\* the character at 0-based position p of the source, NUL past the end
CharAt(p) == IF p < Len(lexer.src) THEN lexer.src[p + 1] ELSE NUL

\* C7: "++" is one Inc token and "--" one Decr token, each consuming both
\* characters and carrying the two-character slice as its literal; a "+" or
\* "-" not followed by the same character is one Plus or Minus token; no
\* character of the source contributes to two tokens.
C7_OperatorDisambiguation ==
    \A i \in 1..Len(lexer.tokens) :
        LET tok == lexer.tokens[i]
            at == starts[i]
        IN  /\ tok.kind = "Inc" => tok.literal = <<"+", "+">>
            /\ tok.kind = "Decr" => tok.literal = <<"-", "-">>
            /\ tok.kind = "Plus" => CharAt(at) = "+" /\ CharAt(at + 1) # "+"
            /\ tok.kind = "Minus" => CharAt(at) = "-" /\ CharAt(at + 1) # "-"
            /\ i < Len(lexer.tokens) => at + Extent(tok) <= starts[i + 1]

\* the backslashes that end literal[1..i]
RECURSIVE BackslashRun(_, _)
BackslashRun(literal, i) ==
    IF i < 1 \/ literal[i] # BACKSLASH THEN 0
    ELSE BackslashRun(literal, i - 1) + 1

\* the literal opens with a quote and ends with an unescaped closing quote
IsClosedString(literal) ==
    /\ Len(literal) >= 2
    /\ literal[1] = QUOTE
    /\ literal[Len(literal)] = QUOTE
    /\ BackslashRun(literal, Len(literal) - 1) % 2 = 0

\* C8: an unterminated string literal is a fatal lexical error (no closing
\* quote before the next newline or the end of the input gives Err), so every
\* String token of a successful lex starts with the opening quote and ends
\* with the unescaped closing quote.
C8_UnterminatedStringIsFatal ==
    lexResult = "ok" =>
        \A i \in 1..Len(lexer.tokens) :
            lexer.tokens[i].kind = "String" =>
                IsClosedString(lexer.tokens[i].literal)

-----------------------------------------------------------------------------
(* Claims about the parser *)

Returned == parseResult \in {"ok", "err"}

\* C1: parse terminates on every token sequence of a successful lex, also
\* when a failure is detected on the EOF token and recovery advances one
\* token. Every top-level parse_stmt call but the last moves the cursor
\* forward, and once the cursor is past the last token every call fails and
\* moves it further; so parse terminates exactly when the cursor stays on the
\* tokens while the loop runs, and then after at most one call per token.
C1_ParseTerminates ==
    /\ parseResult = "running" => parser.pos < Len(parser.tokens)
    /\ Len(calls) <= Len(parser.tokens)

IsFailure(c) == ~c.ok
IsStatement(c) == c.ok /\ c.val.type # "Halt"
Vals(cs) == [i \in 1..Len(cs) |-> cs[i].val]

\* C4: parse is all-or-nothing: it returns Ok(statements) exactly when no
\* top-level parse_stmt call failed, and otherwise Err(list), the list being
\* non-empty and holding the diagnostic of every failed call in order.
C4_AllOrNothing ==
    Returned =>
        /\ parseResult = "ok" <=> SelectSeq(calls, IsFailure) = <<>>
        /\ parseResult = "ok" =>
               parseReturn = Vals(SelectSeq(calls, IsStatement))
        /\ parseResult = "err" =>
               /\ parseReturn = Vals(SelectSeq(calls, IsFailure))
               /\ Len(parseReturn) >= 1

\* parse returned Err with two diagnostics, discarding a parsed statement
C4_Witness ==
    /\ parseResult = "err"
    /\ Len(parseReturn) >= 2
    /\ Len(stmts) >= 1

\* tokens a..b (1-based) hold no function literal and one Semicolon, the last
PlainRun(toks, a, b) ==
    /\ a <= b
    /\ toks[b].kind = "Semicolon"
    /\ \A k \in a..(b - 1) : toks[k].kind \notin {"Semicolon", "Fn", "EOF"}

\* the run parses as one statement
ParsesAsStatement(run) ==
    LET r == parse_stmt(Append(run, TokenNew("EOF", <<>>, LocationNew(1, 1))), 0)
    IN  r.ok /\ r.pos = Len(run)

\* the tokens a one-token repair may put in
RepairTokens ==
    {TokenNew(k, <<>>, LocationNew(1, 1)) : k \in {"Int", "Plus", "LParen", "RParen"}}

\* the run with token k removed, replaced by t, or with t put in before it
Without(run, k) == SubSeq(run, 1, k - 1) \o SubSeq(run, k + 1, Len(run))
Replaced(run, k, t) == [run EXCEPT ![k] = t]
PutIn(run, k, t) == SubSeq(run, 1, k - 1) \o <<t>> \o SubSeq(run, k, Len(run))

\* one token removed, replaced or put in makes the run a statement
OneRepairAway(run) ==
    \E k \in 1..Len(run) :
        \/ ParsesAsStatement(Without(run, k))
        \/ \E t \in RepairTokens :
               \/ ParsesAsStatement(Replaced(run, k, t))
               \/ ParsesAsStatement(PutIn(run, k, t))

\* tokens a..b are a statement with one syntax error, closed by its semicolon
MalformedStmt(toks, a, b) ==
    /\ PlainRun(toks, a, b)
    /\ ~parse_stmt(toks, a - 1).ok
    /\ OneRepairAway(SubSeq(toks, a, b))

WellFormedStmt(toks, a, b) ==
    /\ PlainRun(toks, a, b)
    /\ parse_stmt(toks, a - 1).ok
    /\ parse_stmt(toks, a - 1).pos = b

\* toks is malformed 1..i, well-formed i+1..j, malformed j+1..n-1, EOF
SplitsAt(toks, i, j) ==
    /\ MalformedStmt(toks, 1, i)
    /\ WellFormedStmt(toks, i + 1, j)
    /\ MalformedStmt(toks, j + 1, Len(toks) - 1)

ErrorSandwich(toks) ==
    /\ Len(toks) >= 4
    /\ toks[Len(toks)].kind = "EOF"
    /\ \E i \in 1..Len(toks), j \in 1..(Len(toks) - 2) : i < j /\ SplitsAt(toks, i, j)

\* C5 as stated: for a malformed statement, a well-formed one and a second
\* malformed one (one syntax error each), parse returns Err with a list of
\* length exactly 2.
C5_ExactlyTwoDiagnostics ==
    (Returned /\ ErrorSandwich(parser.tokens)) =>
        parseResult = "err" /\ Len(parseReturn) = 2

\* both failures are detected on the last token of their statement
DetectedOnLastToken(toks) ==
    \A i \in 1..Len(toks), j \in 1..(Len(toks) - 2) :
        (i < j /\ SplitsAt(toks, i, j)) =>
            /\ parse_stmt(toks, 0).pos = i - 1
            /\ parse_stmt(toks, j).pos = Len(toks) - 2

\* C5, amended: for such a program (statements without function literals,
\* each closed by its semicolon) the cursor stays on the tokens, parse never
\* returns Ok, the list it returns has at least 2 diagnostics, and exactly 2
\* when each failure is detected on the last token of its statement, so that
\* the one-token recovery lands on the next statement.
C5_AtLeastTwoDiagnostics ==
    (parseResult # "idle" /\ ErrorSandwich(parser.tokens)) =>
        /\ parseResult = "running" => parser.pos < Len(parser.tokens)
        /\ parseResult # "ok"
        /\ parseResult = "err" => Len(parseReturn) >= 2
        /\ (parseResult = "err" /\ DetectedOnLastToken(parser.tokens)) =>
               Len(parseReturn) = 2

\* such a program gave exactly 2 diagnostics, the statement between parsed
C5_Witness ==
    /\ ErrorSandwich(parser.tokens)
    /\ DetectedOnLastToken(parser.tokens)
    /\ parseResult = "err"
    /\ Len(parseReturn) = 2
    /\ Len(SelectSeq(calls, IsStatement)) = 1

IsAtomKind(k) == k \in {"Int", "Id"}
Additive == {"Plus", "Minus"}
Multiplicative == {"Star", "Slash"}

\* tokens 1..n are atoms joined by binary operators, then Semicolon and EOF
IsChainProgram(toks) ==
    /\ Len(toks) >= 3
    /\ (Len(toks) - 2) % 2 = 1
    /\ toks[Len(toks)].kind = "EOF"
    /\ toks[Len(toks) - 1].kind = "Semicolon"
    /\ \A k \in 1..(Len(toks) - 2) :
           IF k % 2 = 1 THEN IsAtomKind(toks[k].kind)
           ELSE toks[k].kind \in Additive \cup Multiplicative
ChainLen(toks) == Len(toks) - 2

\* the last operator of one of the kinds among tokens lo..hi, 0 if none
LastOp(toks, lo, hi, kinds) ==
    LET at == {k \in lo..hi : toks[k].kind \in kinds}
    IN  IF at = {} THEN 0 ELSE CHOOSE k \in at : \A m \in at : m <= k

\* the tree of the reference grammar
\*   sum ::= sum (+|-) product | product;  product ::= product (*|/) atom | atom
RECURSIVE RefTree(_, _, _)
RefTree(toks, lo, hi) ==
    IF lo = hi
    THEN IF toks[lo].kind = "Int" THEN IntExpr(toks[lo]) ELSE IdExpr(toks[lo])
    ELSE LET k == IF LastOp(toks, lo, hi, Additive) # 0
                  THEN LastOp(toks, lo, hi, Additive)
                  ELSE LastOp(toks, lo, hi, Multiplicative)
         IN  Binary(RefTree(toks, lo, k - 1), toks[k].kind,
                    RefTree(toks, k + 1, hi))

\* C9: for a chain of atoms joined by + - * /, parse_binary(0) builds the
\* tree of the reference grammar (* and / bind tighter, equal precedence
\* associates to the left) and consumes exactly the tokens of the chain.
C9_PrecedenceAndAssociativity ==
    (parseResult # "idle" /\ IsChainProgram(parser.tokens)) =>
        LET toks == parser.tokens
            ref == RefTree(toks, 1, ChainLen(toks))
        IN  /\ parse_binary(toks, 0, 0) = Ok(ChainLen(toks), ref)
            /\ Len(calls) >= 1 =>
                   /\ calls[1].ok
                   /\ calls[1].val = ExpressionStatement(ref)
                   /\ calls[1].pos = ChainLen(toks) + 1

\* a chain a + b * c - d was parsed
C9_Witness ==
    /\ IsChainProgram(parser.tokens)
    /\ ChainLen(parser.tokens) = 7
    /\ parser.tokens[2].kind = "Plus"
    /\ parser.tokens[4].kind = "Star"
    /\ parser.tokens[6].kind = "Minus"
    /\ parseResult = "ok"
    /\ Len(parseReturn) = 1

\* the kind of the token at 0-based position p, "None" past the end
KindAt(toks, p) == IF p < Len(toks) THEN toks[p + 1].kind ELSE "None"

\* the call was made on the expression-statement arm of parse_stmt
OnExpressionArm(toks, c) == KindAt(toks, c.at) \notin {"EOF", "Return", "None"}

\* C10: an expression statement requires and consumes a trailing Semicolon
\* if and only if the expression is not a bare FunctionLiteral: after a bare
\* FunctionLiteral no token is consumed and the statement succeeds; after any
\* other expression a missing Semicolon makes parse_stmt fail.
C10_StatementTermination ==
    \A i \in 1..Len(calls) :
        LET c == calls[i]
            toks == parser.tokens
            e == parse_expr(toks, c.at)
        IN  (OnExpressionArm(toks, c) /\ e.ok) =>
                IF e.val.type = "FunctionLiteral"
                THEN c.ok /\ c.pos = e.pos /\ c.val = ExpressionStatement(e.val)
                ELSE IF KindAt(toks, e.pos) = "Semicolon"
                THEN c.ok /\ c.pos = e.pos + 1
                          /\ c.val = ExpressionStatement(e.val)
                ELSE ~c.ok /\ c.pos = e.pos

\* a bare function literal was accepted with no semicolon after it, and the
\* expression after it was refused for its missing semicolon
C10_Witness ==
    /\ Len(calls) >= 2
    /\ calls[1].ok
    /\ calls[1].val.type = "ExpressionStatement"
    /\ calls[1].val.expression.type = "FunctionLiteral"
    /\ KindAt(parser.tokens, calls[1].pos) # "Semicolon"
    /\ ~calls[2].ok
    /\ parse_expr(parser.tokens, calls[2].at).ok

\* 1-based index of the LParen that opens the argument list: after an Id
\* callee, or after the closing brace of the callee `fn ( ) { }`; 0 otherwise
ArgsOpen(toks) ==
    IF Len(toks) >= 2 /\ toks[1].kind = "Id" /\ toks[2].kind = "LParen" THEN 2
    ELSE IF /\ Len(toks) >= 6
            /\ Kinds(SubSeq(toks, 1, 6))
                   = <<"Fn", "LParen", "RParen", "LCurly", "RCurly", "LParen">>
    THEN 6
    ELSE 0

\* the program is callee ( Int and Comma tokens ) ; EOF
IsCallProgram(toks) ==
    /\ ArgsOpen(toks) # 0
    /\ Len(toks) >= ArgsOpen(toks) + 3
    /\ toks[Len(toks)].kind = "EOF"
    /\ toks[Len(toks) - 1].kind = "Semicolon"
    /\ toks[Len(toks) - 2].kind = "RParen"
    /\ \A k \in (ArgsOpen(toks) + 1)..(Len(toks) - 3) :
           toks[k].kind \in {"Int", "Comma"}

\* the kinds of the tokens between the parentheses
ArgKinds(toks) == Kinds(SubSeq(toks, ArgsOpen(toks) + 1, Len(toks) - 3))

\* arguments separated by commas, one trailing comma allowed
CommaSeparated(ks) ==
    /\ \A k \in 1..Len(ks) : ks[k] = (IF k % 2 = 1 THEN "Int" ELSE "Comma")

\* C11: call argument lists are comma-separated, a single trailing comma is
\* tolerated, and two argument expressions with no Comma between them are a
\* parse error: callee ( args ) ; parses if and only if args is
\* comma-separated, and then with one argument per expression.
C11_ArgumentsAreCommaSeparated ==
    (IsCallProgram(parser.tokens) /\ Len(calls) >= 1) =>
        /\ calls[1].ok <=> CommaSeparated(ArgKinds(parser.tokens))
        /\ calls[1].ok =>
               /\ calls[1].val.expression.type = "FunctionCall"
               /\ Len(calls[1].val.expression.args)
                      = (Len(ArgKinds(parser.tokens)) + 1) \div 2

\* 1-based index of the token where a type is expected: after `fn ( a :`
\* or after `fn ( ) : :`; 0 otherwise
TypeAt(toks) ==
    IF /\ Len(toks) >= 5
       /\ Kinds(SubSeq(toks, 1, 4)) = <<"Fn", "LParen", "Id", "Colon">>
    THEN 5
    ELSE IF /\ Len(toks) >= 6
            /\ Kinds(SubSeq(toks, 1, 5))
                   = <<"Fn", "LParen", "RParen", "Colon", "Colon">>
    THEN 6
    ELSE 0

\* the token was lexed from the keyword `int`
IsIntKeyword(tok) == tok.literal = <<"i", "n", "t">>

\* C12: where a type is expected, parse_type succeeds only if the current
\* token was lexed from the keyword `int`; any other token (an integer
\* literal, an identifier, punctuation, EOF) yields a parse error, so the
\* function literal is not parsed.
C12_TypeIsIntKeyword ==
    (TypeAt(parser.tokens) # 0 /\ Len(calls) >= 1) =>
        /\ parse_type(parser.tokens, TypeAt(parser.tokens) - 1).ok
               <=> IsIntKeyword(parser.tokens[TypeAt(parser.tokens)])
        /\ calls[1].ok => IsIntKeyword(parser.tokens[TypeAt(parser.tokens)])


\* the kind of token i (1-based), "None" past the end
KindOf(toks, i) == KindAt(toks, i - 1)

\* where the parts of a function literal that starts at token 1 are, read
\* off the tokens: fn [name] ( [a : int] ) [: : int] { [1 ; | return ;] }
NameLen(toks) == IF KindOf(toks, 2) = "Id" THEN 1 ELSE 0
OpenAt(toks) == 2 + NameLen(toks)
ParamLen(toks) == IF KindOf(toks, OpenAt(toks) + 1) = "Id" THEN 3 ELSE 0
CloseAt(toks) == OpenAt(toks) + ParamLen(toks) + 1
ReturnLen(toks) == IF KindOf(toks, CloseAt(toks) + 1) = "Colon" THEN 3 ELSE 0
LCurlyAt(toks) == CloseAt(toks) + ReturnLen(toks) + 1
BodyLen(toks) == IF KindOf(toks, LCurlyAt(toks) + 1) = "RCurly" THEN 0 ELSE 2
RCurlyAt(toks) == LCurlyAt(toks) + BodyLen(toks) + 1

\* the tokens start with a function literal of that shape
IsFnProgram(toks) ==
    /\ KindOf(toks, 1) = "Fn"
    /\ KindOf(toks, OpenAt(toks)) = "LParen"
    /\ ParamLen(toks) = 3 =>
           /\ KindOf(toks, OpenAt(toks) + 2) = "Colon"
           /\ KindOf(toks, OpenAt(toks) + 3) = "Int"
    /\ KindOf(toks, CloseAt(toks)) = "RParen"
    /\ ReturnLen(toks) = 3 =>
           /\ KindOf(toks, CloseAt(toks) + 2) = "Colon"
           /\ KindOf(toks, CloseAt(toks) + 3) = "Int"
    /\ KindOf(toks, LCurlyAt(toks)) = "LCurly"
    /\ BodyLen(toks) = 2 =>
           /\ KindOf(toks, LCurlyAt(toks) + 1) \in {"Int", "Return"}
           /\ KindOf(toks, LCurlyAt(toks) + 2) = "Semicolon"
    /\ KindOf(toks, RCurlyAt(toks)) = "RCurly"
    /\ toks[Len(toks)].kind = "EOF"

\* the literal the tokens spell, part by part
LiteralOf(toks) ==
    FunctionLiteral(
        IF NameLen(toks) = 1 THEN Some(toks[2]) ELSE None,
        IF ParamLen(toks) = 3
        THEN <<TypeMappingNew(IdExpr(toks[OpenAt(toks) + 1]), "Int")>>
        ELSE <<>>,
        IF ReturnLen(toks) = 3 THEN Some("Int") ELSE None,
        IF BodyLen(toks) = 0 THEN <<>>
        ELSE IF KindOf(toks, LCurlyAt(toks) + 1) = "Int"
        THEN <<ExpressionStatement(IntExpr(toks[LCurlyAt(toks) + 1]))>>
        ELSE <<Return(None)>>)

\* C13: after a function literal and its closing brace the parser yields
\* FunctionCall{callee: the literal, args}, the argument list parsed through
\* its RParen, if and only if the very next token is LParen; otherwise it
\* yields the bare literal and consumes no token after the brace. The name,
\* parameters, return type and body of the literal are those of the source.
C13_ImmediateInvocation ==
    (parseResult # "idle" /\ IsFnProgram(parser.tokens)) =>
        LET toks == parser.tokens
            r == parse_function_literal_or_call(toks, 0)
        IN  IF KindOf(toks, RCurlyAt(toks) + 1) = "LParen"
            THEN r.ok =>
                     /\ r.val.type = "FunctionCall"
                     /\ r.val.callee = LiteralOf(toks)
                     /\ r.pos > RCurlyAt(toks) + 1
                     /\ KindOf(toks, r.pos) = "RParen"
            ELSE /\ r.ok
                 /\ r.val = LiteralOf(toks)
                 /\ r.pos = RCurlyAt(toks)

\* a literal with a name, a parameter, a return type and a body was invoked
C13_Witness ==
    /\ IsFnProgram(parser.tokens)
    /\ NameLen(parser.tokens) = 1
    /\ ParamLen(parser.tokens) = 3
    /\ ReturnLen(parser.tokens) = 3
    /\ BodyLen(parser.tokens) = 2
    /\ Len(calls) >= 1
    /\ calls[1].ok
    /\ calls[1].val.expression.type = "FunctionCall"
    /\ calls[1].val.expression.callee = LiteralOf(parser.tokens)

\* the newlines among the first p characters of the source
NewlinesBefore(src, p) == {k \in 1..p : src[k] = NL}

\* the index of the last of them, 0 if there is none
LastNewline(src, p) ==
    IF NewlinesBefore(src, p) = {} THEN 0
    ELSE CHOOSE k \in NewlinesBefore(src, p) :
             \A m \in NewlinesBefore(src, p) : m <= k

\* the 1-based (line, col) of the character at 0-based position p
LocationOf(src, p) ==
    LocationNew(1 + p - LastNewline(src, p),
                1 + Cardinality(NewlinesBefore(src, p)))

\* C14: in every reachable lexer state pos <= length of the source and the
\* Location is the 1-based (line, col) of the character at pos; hence the
\* location of every token, the EOF token included, is the position of its
\* first character.
C14_LocationIsExact ==
    /\ lexer.pos <= Len(lexer.src)
    /\ lexer.location = LocationOf(lexer.src, lexer.pos)
    /\ \A i \in 1..Len(lexer.tokens) :
           lexer.tokens[i].location = LocationOf(lexer.src, starts[i])

\* the quote at literal[k] has an even number of backslashes right before it
Unescaped(literal, k) ==
    literal[k] = QUOTE /\ BackslashRun(literal, k - 1) % 2 = 0

\* C15: while a string literal is scanned, a quote after the opening quote
\* closes the literal if and only if the number of backslashes right before
\* it is even; a quote after an odd number is kept and scanning goes on. The
\* literal is the scanned characters verbatim, opening quote first.
C15_EscapedQuoteRule ==
    \A i \in 1..Len(lexer.tokens) :
        LET lit == lexer.tokens[i].literal
            n == Len(lit)
        IN  lexer.tokens[i].kind = "String" =>
                /\ lit = SubSeq(lexer.src, starts[i] + 1, starts[i] + n)
                /\ lit[1] = QUOTE
                /\ \A k \in 2..(n - 1) : ~Unescaped(lit, k)
                /\ starts[i] + n < Len(lexer.src) => (n >= 2 /\ Unescaped(lit, n))

\* a string with an escaped quote inside was closed by an unescaped one
C15_Witness ==
    \E i \in 1..Len(lexer.tokens) :
        /\ lexer.tokens[i].kind = "String"
        /\ IsClosedString(lexer.tokens[i].literal)
        /\ \E k \in 2..(Len(lexer.tokens[i].literal) - 1) :
               lexer.tokens[i].literal[k] = QUOTE

\* the tokens carried by the Expression::Int nodes of an expression or of a
\* statement
RECURSIVE IntTokens(_)
RECURSIVE StmtIntTokens(_)
IntTokens(e) ==
    CASE e.type = "Int" -> {e.value}
      [] e.type = "Unary" -> IntTokens(e.expr)
      [] e.type = "Binary" -> IntTokens(e.lhs) \cup IntTokens(e.rhs)
      [] e.type = "FunctionCall" ->
            IntTokens(e.callee)
            \cup UNION {IntTokens(e.args[k]) : k \in 1..Len(e.args)}
      [] e.type = "FunctionLiteral" ->
            UNION {StmtIntTokens(e.body[k]) : k \in 1..Len(e.body)}
      [] OTHER -> {}
StmtIntTokens(st) ==
    CASE st.type = "ExpressionStatement" -> IntTokens(st.expression)
      [] st.type = "Return" ->
            IF st.value = None THEN {} ELSE IntTokens(st.value[1])
      [] OTHER -> {}

\* the token was lexed from a run of digits and underscores
IsNumericLiteral(tok) ==
    /\ Len(tok.literal) >= 1
    /\ \A k \in 1..Len(tok.literal) : tok.literal[k] \in Digits \cup {"_"}

\* C16: in every tree parse returns, each Expression::Int node carries a
\* token lexed from a numeric literal; the keyword `int` where an expression
\* is expected is rejected, never accepted as an integer-literal atom.
C16_IntNodesAreNumericLiterals ==
    /\ parseResult = "ok" =>
           \A i \in 1..Len(parseReturn) :
               \A tok \in StmtIntTokens(parseReturn[i]) : IsNumericLiteral(tok)
    /\ \A i \in 1..Len(calls) :
           IsIntKeyword(parser.tokens[calls[i].at + 1]) => ~calls[i].ok

====
